---- MODULE Spec2Model ----
(***************************************************************************)
(* A model of ai-chain (src/src/index.ts): the template engine             *)
(* (fillContentTemplate), the content builder (buildContent), the model    *)
(* invoker with its retry loop (getLinkResultOpenAi), the link executor     *)
(* (executeLink) and the chain orchestrator (executeChain).                 *)
(*                                                                         *)
(* JavaScript strings are sequences of one-character strings.  JavaScript  *)
(* values are tagged records: the tag t is what typeof / a null test would *)
(* tell the code.                                                          *)
(***************************************************************************)
EXTENDS Integers, Sequences, FiniteSets, TLC

(***************************************************************************)
(* JavaScript values                                                       *)
(***************************************************************************)
Undefined == [t |-> "undefined"]
Null == [t |-> "null"]
Str(s) == [t |-> "string", s |-> s]
Num(n) == [t |-> "number", n |-> n]
Obj(f) == [t |-> "object", f |-> f]

\* typeof v, as executeLink line 186 uses it (typeof null is "object")
TypeOf(v) ==
  IF v.t \in {"null", "object"} THEN "object" ELSE v.t

\* a variant of Falsy for which only undefined and null are falsy
FalsyNullish(v) ==
  v.t \in {"undefined", "null"}

\* !v for the values of the model: the falsy ones are undefined, null, "" and 0
Falsy(v) ==
  \/ v.t \in {"undefined", "null"}
  \/ v.t = "string" /\ v.s = <<>>
  \/ v.t = "number" /\ v.n = 0

\* the empty object literal {}
EmptyObject == Obj(<<>>)

\* obj[key] = value on an object value: adds the key or overwrites it
SetKey(obj, key, value) ==
  Obj([k \in DOMAIN obj.f \cup {key} |-> IF k = key THEN value ELSE obj.f[k]])

\* obj[key]: undefined when the object has no such key
GetKey(obj, key) ==
  IF key \in DOMAIN obj.f THEN obj.f[key] ELSE Undefined

\* the outcome of an expression that may throw
Ok(v) == [ok |-> TRUE, v |-> v]
Throw(e) == [ok |-> FALSE, e |-> e]

\* new Error(message); a TypeError raised by the runtime has a message too.
\* Such an error has no response field.
Error(message) == [t |-> "Error", message |-> message, response |-> Undefined]

\* [...] and an absent array
Array(a) == [t |-> "array", a |-> a]

\* F(x), with x evaluated once however often F uses its argument (a const
\* binding of the code)
Once(x, F(_)) == CHOOSE y \in {F(v) : v \in {x}} : TRUE

(***************************************************************************)
(* Characters                                                              *)
(***************************************************************************)
Digits == <<"0", "1", "2", "3", "4", "5", "6", "7", "8", "9">>

\* \w of the regular expression at line 60
WordChar ==
  {"a", "b", "c", "d", "e", "f", "g", "h", "i", "j", "k", "l", "m",
   "n", "o", "p", "q", "r", "s", "t", "u", "v", "w", "x", "y", "z",
   "A", "B", "C", "D", "E", "F", "G", "H", "I", "J", "K", "L", "M",
   "N", "O", "P", "Q", "R", "S", "T", "U", "V", "W", "X", "Y", "Z",
   "0", "1", "2", "3", "4", "5", "6", "7", "8", "9", "_"}

\* [\w\.] of the regular expression at line 60
PathChar == WordChar \cup {"."}

\* \s of the regular expression at line 102
SpaceChar == {" ", "\n", "\t", "\r", "\f"}

RECURSIVE NatToString(_)
\* String(n) for a natural number n
NatToString(n) ==
  IF n < 10 THEN <<Digits[n + 1]>>
  ELSE NatToString(n \div 10) \o <<Digits[(n % 10) + 1]>>

\* the text of the messages the code and the runtime raise
s_object == <<"[", "o", "b", "j", "e", "c", "t", " ", "O", "b", "j", "e", "c", "t", "]">>
s_null == <<"n", "u", "l", "l">>
s_undefined == <<"u", "n", "d", "e", "f", "i", "n", "e", "d">>
s_length == <<"l", "e", "n", "g", "t", "h">>

\* String(v): what String.prototype.replace makes of the callback's value
JsString(v) ==
  CASE v.t = "string" -> v.s
    [] v.t = "number" -> NatToString(v.n)
    [] v.t = "object" -> s_object
    [] v.t = "null" -> s_null
    [] OTHER -> s_undefined

(***************************************************************************)
(* Template Engine: fillContentTemplate, lines 52-75                       *)
(***************************************************************************)
RECURSIVE PathRunEnd(_, _)
\* the last position of the longest run of [\w\.] characters of s that starts
\* at position p (p - 1 when s[p] is no such character): the greedy [\w\.]+
PathRunEnd(s, p) ==
  IF p <= Len(s) /\ s[p] \in PathChar THEN PathRunEnd(s, p + 1) ELSE p - 1

\* a match that starts with {{ at position p and whose run of [\w\.] ends at
\* e: it needs one character or more in the run, then }}
MatchEndAfterRun(s, p, e) ==
  IF e >= p + 2 /\ e + 2 <= Len(s) /\ s[e + 1] = "}" /\ s[e + 2] = "}"
  THEN e + 2 ELSE 0

\* the position where a match of /\{\{([\w\.]+)\}\}/ that starts at position p
\* of s ends, 0 when there is none.  No character of the class is a brace, so
\* the greedy run never has to give a character back.
MatchEnd(s, p) ==
  IF p + 1 <= Len(s) /\ s[p] = "{" /\ s[p + 1] = "{"
  THEN MatchEndAfterRun(s, p, PathRunEnd(s, p + 2))
  ELSE 0

RECURSIVE Split(_, _)
\* key.split(sep) for a one-character separator: empty parts are kept
Split(key, sep) ==
  Once(key, LAMBDA str :
    IF \E k \in 1..Len(str) : str[k] = sep
    THEN LET k == CHOOSE k \in 1..Len(str) :
                    str[k] = sep /\ \A j \in 1..(k - 1) : str[j] # sep
         IN <<SubSeq(str, 1, k - 1)>> \o Split(SubSeq(str, k + 1, Len(str)), sep)
    ELSE <<str>>)

\* whether the string part is the canonical text of an array index below n
IsIndexBelow(part, n) ==
  \E k \in 0..(n - 1) : part = NatToString(k)

\* value.hasOwnProperty(part) at line 65, for a value that is neither null nor
\* undefined: an object has its own keys, a string has its indices and length,
\* a number has none
HasOwnProperty(value, part) ==
  CASE value.t = "object" -> part \in DOMAIN value.f
    [] value.t = "string" -> part = s_length \/ IsIndexBelow(part, Len(value.s))
    [] OTHER -> FALSE

\* value[part] at line 66, where value.hasOwnProperty(part) holds
GetProperty(value, part) ==
  CASE value.t = "object" -> value.f[part]
    [] value.t = "string" ->
         IF part = s_length THEN Num(Len(value.s))
         ELSE Str(<<value.s[1 + CHOOSE k \in 0..(Len(value.s) - 1) :
                                   part = NatToString(k)]>>)
    [] OTHER -> Undefined

\* the TypeError of reading a property of null or undefined
e_TypeError == Error([text |-> "Cannot read properties of null or undefined"])

RECURSIVE WalkParts(_, _, _)
\* a variant of WalkParts that does not test hasOwnProperty before reading a
\* property: a missing property reads as undefined
WalkPartsUnchecked(parts, value, m) ==
  IF parts = <<>> THEN Ok(JsString(value))
  ELSE IF value.t \in {"null", "undefined"} THEN Throw(e_TypeError)
  ELSE IF HasOwnProperty(value, Head(parts))
       THEN WalkParts(Tail(parts), GetProperty(value, Head(parts)), m)
       ELSE Ok(s_undefined)

\* the for loop of lines 64-70 from the current value on: Ok(the text that
\* replaces the token m), or the TypeError of value.hasOwnProperty where value
\* is null or undefined
WalkParts(parts, value, m) ==
  IF parts = <<>> THEN Ok(JsString(value))
  ELSE IF value.t \in {"null", "undefined"} THEN Throw(e_TypeError)
  ELSE IF HasOwnProperty(value, Head(parts))
       THEN WalkParts(Tail(parts), GetProperty(value, Head(parts)), m)
       ELSE Ok(m)

\* the outcome r of a token, resolved once more when it is a token again
ResolvedAgain(r, linkResults) ==
  IF r.ok /\ Len(r.v) > 0 /\ MatchEnd(r.v, 1) = Len(r.v)
  THEN WalkParts(Split(SubSeq(r.v, 3, Len(r.v) - 2), "."), linkResults, r.v)
  ELSE r

\* a variant of ReplaceToken that resolves a value that is token text again
ReplaceTokenAgain(m, key, linkResults) ==
  Once(WalkParts(Split(key, "."), linkResults, m),
       LAMBDA r : ResolvedAgain(r, linkResults))

\* the callback of lines 61-72 for the match m, whose capture group is key
ReplaceToken(m, key, linkResults) ==
  Once(Split(key, "."), LAMBDA parts : WalkParts(parts, linkResults, m))

\* head followed by the outcome rest, unless rest is an error
Prepend(head, rest) ==
  Once(rest, LAMBDA r : IF r.ok THEN Ok(head \o r.v) ELSE r)

RECURSIVE ReplaceFrom(_, _, _)
\* the match that ends at e was replaced with outcome r: go on after it
ReplaceMatch(s, e, linkResults, r) ==
  IF r.ok THEN Prepend(r.v, ReplaceFrom(s, e + 1, linkResults)) ELSE r

\* position p of the template, where a match ends at e (0: no match starts here)
ReplaceAt(s, p, e, linkResults) ==
  IF e = 0
  THEN Prepend(<<s[p]>>, ReplaceFrom(s, p + 1, linkResults))
  ELSE ReplaceMatch(s, e, linkResults,
         ReplaceToken(SubSeq(s, p, e), SubSeq(s, p + 2, e - 2), linkResults))

\* String.prototype.replace with the global regular expression, from position
\* p of the template on: matches are found left to right in the template and
\* a replacement is never scanned again
ReplaceFrom(s, p, linkResults) ==
  IF p > Len(s) THEN Ok(<<>>)
  ELSE ReplaceAt(s, p, MatchEnd(s, p), linkResults)

\* fillContentTemplate(contentTemplate, linkResults): Ok(the filled text) or
\* the error it throws
fillContentTemplate(contentTemplate, linkResults) ==
  IF Falsy(linkResults) THEN Ok(contentTemplate)
  ELSE Once(contentTemplate, LAMBDA s : ReplaceFrom(s, 1, linkResults))

(***************************************************************************)
(* Content Builder: buildContent, lines 77-105                             *)
(***************************************************************************)
\* the outcome first of one element, followed by the outcome of the others
Cons(first, rest) ==
  Once(first, LAMBDA head :
    IF ~head.ok THEN head
    ELSE Once(rest, LAMBDA tail :
           IF ~tail.ok THEN tail ELSE Ok(<<head.v>> \o tail.v)))

RECURSIVE FillBlocks(_, _)
\* .map(fillContentTemplate) over the surviving blocks: Ok(the array of filled
\* texts) or the first error thrown
FillBlocks(blocks, linkResults) ==
  IF blocks = <<>> THEN Ok(<<>>)
  ELSE Cons(fillContentTemplate(Head(blocks).template, linkResults),
            FillBlocks(Tail(blocks), linkResults))

RECURSIVE Join(_, _)
\* Array.prototype.join
Join(strs, sep) ==
  IF strs = <<>> THEN <<>>
  ELSE IF Len(strs) = 1 THEN strs[1]
  ELSE strs[1] \o sep \o Join(Tail(strs), sep)

RECURSIVE SpaceRunEnd(_, _)
\* the last position of the longest run of \s characters of s starting at p
SpaceRunEnd(s, p) ==
  IF p <= Len(s) /\ s[p] \in SpaceChar THEN SpaceRunEnd(s, p + 1) ELSE p - 1

RECURSIVE RemoveDoubleSpaces(_, _)
\* a variant of CollapseAt that replaces a single whitespace character too
CollapseAtEvery(s, p, e) ==
  IF e >= p THEN <<" ">> \o RemoveDoubleSpaces(s, e + 1)
  ELSE <<s[p]>> \o RemoveDoubleSpaces(s, p + 1)

\* position p of the text, where the run of whitespace ends at e
CollapseAt(s, p, e) ==
  IF e >= p + 1 THEN <<" ">> \o RemoveDoubleSpaces(s, e + 1)
  ELSE <<s[p]>> \o RemoveDoubleSpaces(s, p + 1)

\* result.replace(/\s\s+/g, " ") from position p on: a run of two or more
\* whitespace characters becomes one space, a single one is kept as it is
RemoveDoubleSpaces(s, p) ==
  IF p > Len(s) THEN <<>> ELSE CollapseAt(s, p, SpaceRunEnd(s, p))

\* a variant of IncludedBlocks that keeps every block
IncludedBlocksAll(blocks) ==
  blocks

\* a variant of IncludedBlocks that keeps the blocks whose include is true
IncludedBlocksOnlyTrue(blocks) ==
  SelectSeq(blocks, LAMBDA block : block.include = "true")

\* .filter((block) => block.include !== false), line 94; a block with no
\* include field has include = "absent"
IncludedBlocks(blocks) ==
  SelectSeq(blocks, LAMBDA block : block.include # "false")

\* lines 98-104, from the filled blocks on
JoinBlocks(filledBlocks, autoNewLineContent, removeDoubleSpaces) ==
  Once(Join(filledBlocks, IF autoNewLineContent # "false" THEN <<"\n">> ELSE <<" ">>),
       LAMBDA result :
         IF removeDoubleSpaces # "false" THEN RemoveDoubleSpaces(result, 1)
         ELSE result)

\* the outcome of a step applied to the outcome before it
JoinFilled(filled, autoNewLineContent, removeDoubleSpaces) ==
  Once(filled, LAMBDA blocks :
    IF blocks.ok
    THEN Ok(JoinBlocks(blocks.v, autoNewLineContent, removeDoubleSpaces))
    ELSE blocks)

\* buildContent({content, linkResults, autoNewLineContent, removeDoubleSpaces}):
\* content is [t |-> "string", s |-> ...] or [t |-> "blocks", blocks |-> ...];
\* a flag is "true", "false" or "absent" (the default, true, then applies)
buildContent(content, linkResults, autoNewLineContent, removeDoubleSpaces) ==
  IF content.t = "string" THEN fillContentTemplate(content.s, linkResults)
  ELSE JoinFilled(FillBlocks(IncludedBlocks(content.blocks), linkResults),
                  autoNewLineContent, removeDoubleSpaces)

(***************************************************************************)
(* The links, chains and configs the model runs                            *)
(***************************************************************************)
MaxChainLen == 2
MaxConfigRetries == 2

\* link names (Function.name of a function link, name of a model link)
n_getRandomletter == <<"l">>
n_getRandomName == <<"n">>
n_getGender == <<"g">>
n_addKunOrChanToName == <<"k">>
n_static == <<"s">>
n_bare == <<"x">>
n_deep == <<"d">>
n_threeTries == <<"t">>
k_name == <<"n", "a", "m", "e">>
k_gender == <<"g", "e", "n", "d", "e", "r">>
s_Ivan == <<"I", "v", "a", "n">>
s_boy == <<"b", "o", "y">>
s_i == <<"i">>

FunctionLink(name) == [kind |-> "function", name |-> name]

ModelLink(name, retries, messages, templates) ==
  [kind |-> "model", name |-> name, retries |-> retries, messages |-> messages,
   templates |-> templates, linkResults |-> Undefined,
   autoNewLineContent |-> "absent", removeDoubleSpaces |-> "absent"]

Block(template, include) == [template |-> template, include |-> include]
Blocks(blocks) == [t |-> "blocks", blocks |-> blocks]
Text(s) == [t |-> "string", s |-> s]
MessageTemplate(role, contentBlocks) == [role |-> role, contentBlocks |-> contentBlocks]
Message(role, content) == [role |-> role, content |-> content]

\* examples/first-example.ts, with short texts: the third block is excluded
getRandomName ==
  ModelLink(n_getRandomName, Undefined, Undefined,
    Array(<<MessageTemplate("user",
      Blocks(<<Block(<<"N", " ">>, "true"),
               Block(<<"{", "{", "l", "}", "}">>, "true"),
               Block(<<"L">>, "false")>>))>>))

\* examples/first-example.ts: a link with its own retries: 2
getGender ==
  ModelLink(n_getGender, Num(2), Undefined,
    Array(<<MessageTemplate("user", Text(<<"G", " ", "{", "{", "n", "}", "}">>))>>))

\* a model link with a static message list and no template set
staticLink ==
  ModelLink(n_static, Num(1), Array(<<Message("system", <<"S">>)>>), Undefined)

\* a model link with neither messages nor templates
bareLink == ModelLink(n_bare, Undefined, Undefined, Undefined)

\* a model link whose template follows a path into the previous result
deepLink ==
  ModelLink(n_deep, Undefined, Undefined,
    Array(<<MessageTemplate("absent",
      Text(<<"{", "{", "g", ".", "n", "a", "m", "e", ".", "x", "}", "}">>))>>))

\* a model link with retries: 3, static messages, and a template that refers
\* to getRandomletter
threeTries ==
  ModelLink(n_threeTries, Num(3), Array(<<Message("system", <<"S">>)>>),
    Array(<<MessageTemplate("user", Text(<<"T", " ", "{", "{", "l", "}", "}">>))>>))

Links ==
  {FunctionLink(n_getRandomletter), FunctionLink(n_addKunOrChanToName),
   getRandomName, getGender, staticLink, bareLink, deepLink, threeTries}

Chains == UNION {[1..n -> Links] : n \in 0..MaxChainLen}

\* the optional second argument of executeChain
Configs == {Undefined} \cup {[t |-> "config", retries |-> Num(n)] : n \in -1..MaxConfigRetries}

\* what a function link may return (a function link may also throw)
FunctionResults ==
  {Str(s_i), Str(<<>>), Num(7),
   Obj((k_name :> Str(s_Ivan)) @@ (k_gender :> Str(s_boy)))}

Usage(prompt_tokens, completion_tokens) ==
  [t |-> "usage", prompt_tokens |-> prompt_tokens, completion_tokens |-> completion_tokens]

FunctionCall(arguments) == [t |-> "function_call", arguments |-> arguments]

\* chatCompletion.data: choices[0].message.content, .function_call, and usage
Response(content, function_call, usage) ==
  [t |-> "response", content |-> content, function_call |-> function_call, usage |-> usage]

\* the completions the provider may return
Responses ==
  {Response(Str(s_Ivan), Undefined, Usage(9, 2)),
   Response(Null, Undefined, Usage(5, 0)),
   Response(Null, FunctionCall("{\"name\":\"Ivan\",\"gender\":\"boy\"}"), Usage(7, 3)),
   Response(Null, FunctionCall("{\"name\":null}"), Undefined),
   Response(Null, FunctionCall("{\"name\":"), Usage(4, 1)),
   Response(Null, FunctionCall("null"), Usage(3, 1))}

\* the failures of openai.createChatCompletion: a transport error (no
\* response), a provider error with structured detail (response.data.error),
\* and an HTTP error whose response body has no error field
RemoteErrors ==
  {[t |-> "Error", message |-> [text |-> "socket hang up"], response |-> Undefined],
   [t |-> "Error", message |-> [text |-> "Request failed with status code 429"],
    response |-> [t |-> "response",
                  data_error |-> [t |-> "object",
                                  message |-> [text |-> "Rate limit reached"]]]],
   [t |-> "Error", message |-> [text |-> "Request failed with status code 502"],
    response |-> [t |-> "response", data_error |-> Undefined]]}

\* JSON.parse on the argument payloads of Responses
JsonParse(text) ==
  CASE text = "{\"name\":\"Ivan\",\"gender\":\"boy\"}" ->
         Ok(Obj((k_name :> Str(s_Ivan)) @@ (k_gender :> Str(s_boy))))
    [] text = "{\"name\":null}" -> Ok(Obj(k_name :> Null))
    [] text = "null" -> Ok(Null)
    [] OTHER -> Throw(Error([text |-> "Unexpected end of JSON input"]))

(***************************************************************************)
(* State                                                                   *)
(***************************************************************************)
VARIABLES
  chain,                   \* executeChain's first argument
  config,                  \* executeChain's second argument, or undefined
  pc,                      \* where the invocation stands (see the actions)
  i,                       \* the loop index of line 247 (from 0)
  linkResults,             \* line 242
  linkMessages,            \* line 243
  chatCompletionResponses, \* line 244
  retries,                 \* getLinkResultOpenAi's retries, the budget left
  messages,                \* getLinkResultOpenAi's messages
  functionArgument,        \* the argument of the function link being awaited
  returned,                \* the report executeChain returned
  thrown,                  \* the value executeChain threw
  thrownBy,                \* the function that raised it
  attemptLog,              \* history: what each loop iteration of the running
                           \* (or last) getLinkResultOpenAi call came to
  produced,                \* history: for each completed link, in order, its
                           \* result and the completion of its successful attempt
  executeLink_result,      \* executeLink's result (line 181) once the running
                           \* (or last) link has assigned it, Unassigned before
  renderLog,               \* history: what each templates.map of the running
                           \* (or last) getLinkResultOpenAi call came to
  input,                   \* the arguments of a direct call of buildContent or
                           \* fillContentTemplate
  output                   \* what that call came to

vars ==
  <<chain, config, pc, i, linkResults, linkMessages, chatCompletionResponses,
    retries, messages, functionArgument, returned, thrown, thrownBy,
    attemptLog, produced, executeLink_result, renderLog, input, output>>

\* let result, line 181, before lines 185-209 assign it
Unassigned == [t |-> "unassigned"]

\* no direct call of buildContent or fillContentTemplate is made
NoCall == [f |-> "none"]

Init ==
  /\ chain \in Chains
  /\ config \in Configs
  /\ pc = "executeChain"
  /\ i = 0
  /\ linkResults = EmptyObject
  /\ linkMessages = EmptyObject
  /\ chatCompletionResponses = EmptyObject
  /\ retries = 0
  /\ messages = Undefined
  /\ functionArgument = Undefined
  /\ returned = Undefined
  /\ thrown = Undefined
  /\ thrownBy = "nobody"
  /\ attemptLog = <<>>
  /\ produced = <<>>
  /\ executeLink_result = Unassigned
  /\ renderLog = <<>>
  /\ input = NoCall
  /\ output = NoCall

\* chain[i] of the code (indices from 0)
At(c, index) == c[index + 1]

(***************************************************************************)
(* Link Executor: executeLink, lines 174-222                               *)
(***************************************************************************)
\* linkResults[chain[index - 1]?.name], the lookup of line 186
PreviousResult(results, c, index) ==
  IF index - 1 >= 0 /\ index - 1 < Len(c)
  THEN GetKey(results, At(c, index - 1).name)
  ELSE Undefined

\* a variant of FunctionArgument that always passes the whole mapping
FunctionArgumentAlwaysAll(results, c, index) ==
  Obj(results.f)

\* the argument a function link is called with, lines 186-192
FunctionArgument(results, c, index) ==
  IF TypeOf(PreviousResult(results, c, index)) = "object" /\ index > 0
  THEN (IF PreviousResult(results, c, index).t = "object"
        THEN Obj(PreviousResult(results, c, index).f)
        ELSE EmptyObject)
  ELSE Obj(results.f)

\* the object getLinkResultOpenAi is called with, lines 195-199:
\* { ...link, linkResults, retries }, the later keys replacing the link's own
InvokerArgument(link, results, chainRetries) ==
  [link EXCEPT !.linkResults = results, !.retries = chainRetries]

\* config?.retries, line 249
ConfigRetries(cfg) ==
  IF cfg.t = "undefined" THEN Undefined ELSE cfg.retries

DefaultRetries == 3

\* the parameter default of line 109: retries = 3 when the field is undefined
InitialRetries(argument) ==
  IF argument.retries.t = "undefined" THEN DefaultRetries ELSE argument.retries.n

\* lines 202-209: the result of a model link, from the completion
ExtractResult(response) ==
  IF response.function_call.t # "undefined"
  THEN JsonParse(response.function_call.arguments)
  ELSE Ok(IF Falsy(response.content) THEN Str(<<>>) ELSE response.content)

\* the chatCompletionResponse executeLink returns, line 219: the variable of
\* line 182.  The completion is bound by the const of line 194, whose scope is
\* the else block, so the variable of line 182 is never assigned.
ReturnedChatCompletionResponse(response) == Undefined

\* line 213
ExecutionFailed(link) ==
  Error([text |-> "Execution failed for link ", name |-> link.name])

\* lines 216-221
LinkResult(link, result, response, sentMessages) ==
  [name |-> link.name, result |-> result,
   chatCompletionResponse |-> ReturnedChatCompletionResponse(response),
   messages |-> sentMessages]

(***************************************************************************)
(* Model Invoker: getLinkResultOpenAi, lines 107-172                       *)
(***************************************************************************)
\* the message of line 130-138 for a template whose content was built
RenderedMessage(messageTemplate, content) ==
  IF content.ok
  THEN Ok(Message(IF messageTemplate.role = "absent" THEN "user"
                  ELSE messageTemplate.role, content.v))
  ELSE content

RECURSIVE RenderTemplates(_, _)
\* templates.map(...) of lines 129-139: Ok(the messages) or the error that
\* buildContent threw
RenderTemplates(templates, argument) ==
  IF templates = <<>> THEN Ok(<<>>)
  ELSE Cons(RenderedMessage(Head(templates),
              buildContent(Head(templates).contentBlocks, argument.linkResults,
                           argument.autoNewLineContent,
                           argument.removeDoubleSpaces)),
            RenderTemplates(Tail(templates), argument))

e_NoMessages == Error([text |-> "No messages or template provided"])

\* lines 142-144: the messages to send, or the error of a link with none
CheckMessages(msgs) ==
  IF msgs.t = "undefined" THEN Throw(e_NoMessages) ELSE Ok(msgs)

\* line 129, the assignment to messages, from the outcome of the map
AssignMessages(rendered) ==
  IF rendered.ok THEN CheckMessages(Array(rendered.v)) ELSE rendered

\* a variant of PrepareMessages that sends the messages it has when it has any
PrepareMessagesStaticFirst(argument, current) ==
  IF current.t # "undefined"
  THEN CheckMessages(current)
  ELSE IF argument.templates.t # "undefined"
       THEN AssignMessages(RenderTemplates(argument.templates.a, argument))
       ELSE CheckMessages(current)

\* lines 128-144, the part of an attempt before the remote call: Ok(the
\* messages to send) or the error thrown; current is the messages variable
PrepareMessages(argument, current) ==
  IF argument.templates.t # "undefined"
  THEN AssignMessages(RenderTemplates(argument.templates.a, argument))
  ELSE CheckMessages(current)

\* the history of the renders, after the render of lines 128-140
RenderLog(log, argument) ==
  IF argument.templates.t # "undefined"
  THEN Append(log, RenderTemplates(argument.templates.a, argument))
  ELSE log

\* the TypeError of error.response.data.error.message, line 161, where
\* error.response.data has no error
e_TypeErrorInCatch ==
  Error([text |-> "Cannot read properties of undefined (reading 'message')"])

\* the catch block, lines 155-168, with retriesLeft the budget before it runs:
\* the budget after it, and the error it throws when that budget is 0
Catch(error, retriesLeft) ==
  [retries |-> retriesLeft - 1,
   throws |-> retriesLeft - 1 = 0,
   e |-> IF error.response.t # "undefined"
         THEN (IF error.response.data_error.t = "undefined"
               THEN e_TypeErrorInCatch
               ELSE Error(error.response.data_error.message))
         ELSE Error(error.message)]

\* a variant of ErrorToThrow that is an error with a message
ErrorToThrowWithMessage == Error([text |-> "No retries left"])

\* errorToThrow, line 124: never assigned, thrown at line 171
ErrorToThrow == Null

(***************************************************************************)
(* Chain Orchestrator: executeChain, lines 238-278                         *)
(***************************************************************************)
\* a variant of MergeResult that does not write the result
MergeResultDropped(results, linkResult) ==
  results

\* a variant of MergeResult that starts the mapping anew with each result
MergeResultAnew(results, linkResult) ==
  SetKey(EmptyObject, linkResult.name, linkResult.result)

\* line 250
MergeResult(results, linkResult) ==
  SetKey(results, linkResult.name, linkResult.result)

\* line 251
MergeMessages(msgs, linkResult) ==
  SetKey(msgs, linkResult.name, linkResult.messages)

\* lines 252-254
MergeResponse(responses, linkResult) ==
  IF linkResult.chatCompletionResponse.t # "undefined"
  THEN SetKey(responses, linkResult.name, linkResult.chatCompletionResponse)
  ELSE responses

\* a variant of AfterThrow that runs the link that failed again
AfterThrowAgain(index) == [pc |-> "executeChain", i |-> index]

\* a variant of AfterThrow that catches the failure and goes on with the next link
AfterThrowCaught(index) == [pc |-> "executeChain", i |-> index + 1]

\* where the loop of lines 247-255 stands after executeLink threw at index:
\* nothing catches, the invocation ends
AfterThrow(index) == [pc |-> "thrown", i |-> index]

\* a variant of AfterLink that runs the link that completed again
AfterLinkAgain(index) == [pc |-> "executeChain", i |-> index]

\* where the loop stands after the link at index completed: i++
AfterLink(index) == [pc |-> "executeChain", i |-> index + 1]

RECURSIVE SumOver(_, _)
\* values.reduce((acc, curr) => acc + curr, 0) over the keys left of a mapping
\* from keys to numbers
SumOver(numbers, keys) ==
  IF keys = {} THEN 0
  ELSE LET k == CHOOSE k \in keys : TRUE
       IN numbers[k] + SumOver(numbers, keys \ {k})

\* curr.usage?.prompt_tokens || 0, line 259
PromptTokens(response) ==
  IF response.usage.t = "undefined" THEN 0 ELSE response.usage.prompt_tokens

\* curr.usage?.completion_tokens || 0, line 263
CompletionTokens(response) ==
  IF response.usage.t = "undefined" THEN 0 ELSE response.usage.completion_tokens

\* a variant of FinalResult that takes the result of the first link
FinalResultOfFirst(c, results) == GetKey(results, At(c, 0).name)

\* linkResults[chain[chain.length - 1].name], line 257, for a non-empty chain
FinalResult(c, results) == GetKey(results, At(c, Len(c) - 1).name)

\* lines 257-277, for a non-empty chain
Report(c, results, msgs, responses) ==
  LET totalPromptTokens ==
        SumOver([k \in DOMAIN responses.f |-> PromptTokens(responses.f[k])],
                DOMAIN responses.f)
      totalCompletionTokens ==
        SumOver([k \in DOMAIN responses.f |-> CompletionTokens(responses.f[k])],
                DOMAIN responses.f)
  IN [t |-> "report",
      finalResult |-> FinalResult(c, results),
      totalTokens |-> totalPromptTokens + totalCompletionTokens,
      totalPromptTokens |-> totalPromptTokens,
      totalCompletionTokens |-> totalCompletionTokens,
      chatCompletionResponses |-> responses,
      linkResults |-> results,
      linkMessages |-> msgs]

(***************************************************************************)
(* Actions.  pc is "executeChain" at the loop test of line 247, "function" *)
(* while a function link is awaited, "attempt" at the loop test of line    *)
(* 125, "remote" while createChatCompletion is awaited, and "returned" or  *)
(* "thrown" once executeChain has ended.                                   *)
(***************************************************************************)
\* the link completed with result: lines 216-221, then lines 250-255
Complete(link, result, response, sentMessages) ==
  LET linkResult == LinkResult(link, result, response, sentMessages)
  IN /\ linkResults' = MergeResult(linkResults, linkResult)
     /\ linkMessages' = MergeMessages(linkMessages, linkResult)
     /\ chatCompletionResponses' = MergeResponse(chatCompletionResponses, linkResult)
     /\ produced' = Append(produced, [result |-> result, response |-> response])
     /\ pc' = AfterLink(i).pc
     /\ i' = AfterLink(i).i
     /\ UNCHANGED <<returned, thrown, thrownBy>>

\* the link threw e in function by: executeChain does not catch it
Fail(e, by) ==
  /\ thrown' = e
  /\ thrownBy' = by
  /\ pc' = AfterThrow(i).pc
  /\ i' = AfterThrow(i).i
  /\ UNCHANGED <<linkResults, linkMessages, chatCompletionResponses, produced,
                 returned>>

\* lines 247-249 and 184-192: the next link is a function link and is called
CallFunctionLink ==
  /\ pc = "executeChain"
  /\ i < Len(chain)
  /\ At(chain, i).kind = "function"
  /\ functionArgument' = FunctionArgument(linkResults, chain, i)
  /\ executeLink_result' = Unassigned
  /\ pc' = "function"
  /\ UNCHANGED renderLog
  /\ UNCHANGED <<chain, config, input, output, i, linkResults, linkMessages,
                 chatCompletionResponses, retries, messages, returned, thrown,
                 thrownBy, attemptLog, produced>>

\* the function link returns result: lines 212-221 and 250-255
FunctionReturns(result) ==
  /\ pc = "function"
  /\ executeLink_result' = result
  /\ UNCHANGED renderLog
  /\ IF Falsy(result)
     THEN Fail(ExecutionFailed(At(chain, i)), "executeLink")
     ELSE Complete(At(chain, i), result, Undefined, Undefined)
  /\ UNCHANGED <<chain, config, input, output, retries, messages, functionArgument, attemptLog>>

e_FunctionLink == Error([text |-> "thrown by the function link"])

\* the function link throws
FunctionThrows ==
  /\ pc = "function"
  /\ Fail(e_FunctionLink, "link")
  /\ UNCHANGED <<executeLink_result, renderLog>>
  /\ UNCHANGED <<chain, config, input, output, retries, messages, functionArgument, attemptLog>>

\* the argument of the getLinkResultOpenAi call that runs link i
CurrentArgument ==
  InvokerArgument(At(chain, i), linkResults, ConfigRetries(config))

\* lines 247-249, 193-199 and 107-124: the next link is a model link and
\* getLinkResultOpenAi is entered
CallModelLink ==
  /\ pc = "executeChain"
  /\ i < Len(chain)
  /\ At(chain, i).kind = "model"
  /\ retries' = InitialRetries(CurrentArgument)
  /\ messages' = CurrentArgument.messages
  /\ attemptLog' = <<>>
  /\ renderLog' = <<>>
  /\ executeLink_result' = Unassigned
  /\ pc' = "attempt"
  /\ UNCHANGED <<chain, config, input, output, i, linkResults, linkMessages,
                 chatCompletionResponses, functionArgument, returned, thrown,
                 thrownBy, produced>>

\* the catch block runs on error, after an iteration that came to outcome
Caught(error, outcome) ==
  /\ attemptLog' = Append(attemptLog, outcome)
  /\ retries' = Catch(error, retries).retries
  /\ IF Catch(error, retries).throws
     THEN Fail(Catch(error, retries).e, "getLinkResultOpenAi")
     ELSE /\ pc' = "attempt"
          /\ UNCHANGED <<i, linkResults, linkMessages, chatCompletionResponses,
                         produced, returned, thrown, thrownBy>>

\* an iteration of the loop whose lines 128-144 came to prepared: the remote
\* call is made (lines 145-152) or the catch block runs (lines 155-168)
AttemptWith(prepared) ==
  IF prepared.ok
  THEN /\ messages' = prepared.v
       /\ pc' = "remote"
       /\ UNCHANGED <<i, linkResults, linkMessages, chatCompletionResponses,
                      retries, returned, thrown, thrownBy, attemptLog, produced>>
  ELSE /\ Caught(prepared.e, "threw")
       /\ UNCHANGED messages

\* lines 125-152 and 155-168: an iteration of the retry loop, up to the
\* remote call or to the error thrown before it
Attempt ==
  /\ pc = "attempt"
  /\ retries > 0
  /\ \E prepared \in {PrepareMessages(CurrentArgument, messages)} :
       AttemptWith(prepared)
  /\ renderLog' = RenderLog(renderLog, CurrentArgument)
  /\ UNCHANGED executeLink_result
  /\ UNCHANGED <<chain, config, input, output, functionArgument>>

\* lines 125 and 171: the loop test fails and errorToThrow is thrown
LoopExit ==
  /\ pc = "attempt"
  /\ ~(retries > 0)
  /\ Fail(ErrorToThrow, "getLinkResultOpenAi")
  /\ UNCHANGED <<executeLink_result, renderLog>>
  /\ UNCHANGED <<chain, config, input, output, retries, messages, functionArgument, attemptLog>>

\* the remote call fails with error: lines 155-168
RemoteFails(error) ==
  /\ pc = "remote"
  /\ Caught(error, "failed")
  /\ UNCHANGED <<executeLink_result, renderLog>>
  /\ UNCHANGED <<chain, config, input, output, messages, functionArgument>>

\* lines 200-221 and 250-255, with extracted the outcome of lines 202-209
AfterExtract(response, extracted) ==
  IF ~extracted.ok THEN Fail(extracted.e, "executeLink")
  ELSE IF Falsy(extracted.v) THEN Fail(ExecutionFailed(At(chain, i)), "executeLink")
  ELSE Complete(At(chain, i), extracted.v, response, messages)

\* result after lines 202-209 came to extracted: a throw leaves it as it was
AssignedResult(before, extracted) ==
  IF extracted.ok THEN extracted.v ELSE before

\* the remote call succeeds with response: line 154, then lines 200-221 and
\* 250-255
RemoteSucceeds(response) ==
  /\ pc = "remote"
  /\ attemptLog' = Append(attemptLog, "succeeded")
  /\ AfterExtract(response, ExtractResult(response))
  /\ executeLink_result' = AssignedResult(executeLink_result, ExtractResult(response))
  /\ UNCHANGED renderLog
  /\ UNCHANGED <<chain, config, input, output, retries, messages, functionArgument>>

e_EmptyChain == Error([text |-> "Cannot read properties of undefined (reading 'name')"])

\* a variant of Finished that reports zero totals for an empty chain
FinishedWithZeroTotals(c, results, msgs, responses) ==
  IF Len(c) = 0
  THEN Ok([t |-> "report", finalResult |-> Undefined, totalTokens |-> 0,
           totalPromptTokens |-> 0, totalCompletionTokens |-> 0,
           chatCompletionResponses |-> responses, linkResults |-> results,
           linkMessages |-> msgs])
  ELSE Ok(Report(c, results, msgs, responses))

\* lines 257-277: chain[chain.length - 1] of an empty chain is undefined and
\* reading its name throws; otherwise the report is returned
Finished(c, results, msgs, responses) ==
  IF Len(c) = 0 THEN Throw(e_EmptyChain)
  ELSE Ok(Report(c, results, msgs, responses))

\* the loop is over with outcome
FinishWith(outcome) ==
  /\ IF outcome.ok
     THEN /\ returned' = outcome.v
          /\ pc' = "returned"
          /\ UNCHANGED <<thrown, thrownBy>>
     ELSE /\ thrown' = outcome.e
          /\ thrownBy' = "executeChain"
          /\ pc' = "thrown"
          /\ UNCHANGED returned
  /\ UNCHANGED <<chain, config, input, output, i, linkResults, linkMessages,
                 chatCompletionResponses, retries, messages, functionArgument,
                 attemptLog, produced, executeLink_result, renderLog>>

\* lines 247 and 257-277: the loop is over
Finish ==
  /\ pc = "executeChain"
  /\ ~(i < Len(chain))
  /\ \E outcome \in {Finished(chain, linkResults, linkMessages,
                               chatCompletionResponses)} :
       FinishWith(outcome)

Next ==
  \/ CallFunctionLink
  \/ \E result \in FunctionResults : FunctionReturns(result)
  \/ FunctionThrows
  \/ CallModelLink
  \/ Attempt
  \/ LoopExit
  \/ \E error \in RemoteErrors : RemoteFails(error)
  \/ \E response \in Responses : RemoteSucceeds(response)
  \/ Finish

Spec == Init /\ [][Next]_vars


\* the scheduling of an invocation: the runtime goes on with the code while a
\* step is possible, and a function link or a remote call that is awaited
\* returns or fails
FairSpec == Spec /\ WF_vars(Next)

(***************************************************************************)
(* Direct calls of fillContentTemplate (exported, lines 52-75)             *)
(***************************************************************************)
\* a template is made of at most MaxPieces pieces
MaxPieces == 2

\* the pieces: tokens of one, two and three segments, a token into a string,
\* a token for a key that no mapping has, text, and the two halves of a token
TemplatePieces ==
  {<<"{", "{", "a", "}", "}">>,
   <<"{", "{", "a", ".", "b", "}", "}">>,
   <<"{", "{", "a", ".", "b", ".", "c", "}", "}">>,
   <<"{", "{", "a", ".", "0", "}", "}">>,
   <<"{", "{", "z", "}", "}">>,
   <<"x">>,
   <<"{", "{", "a">>,
   <<"}", "}">>}

RECURSIVE TemplatesOf(_)
\* the templates of at most n pieces
TemplatesOf(n) ==
  IF n = 0 THEN {<<>>}
  ELSE TemplatesOf(n - 1) \cup
       {t \o p : t \in TemplatesOf(n - 1), p \in TemplatePieces}

k_a == <<"a">>
k_b == <<"b">>
k_c == <<"c">>
k_z == <<"z">>

\* the linkResults argument: not supplied, or a mapping from link names to
\* strings or parsed objects, whose fields are strings, numbers, objects, null
GivenLinkResults ==
  {Undefined,
   EmptyObject,
   Obj(k_a :> Str(s_Ivan)),
   Obj(k_a :> Obj(k_b :> Str(s_boy))),
   Obj(k_a :> Obj(k_b :> Null)),
   Obj(k_a :> Obj(k_b :> Obj(k_c :> Num(7)))),
   Obj((k_a :> Str(<<"{", "{", "z", "}", "}">>)) @@ (k_z :> Str(s_i)))}

\* the arguments of a call fillContentTemplate(contentTemplate, linkResults)
FillCall(template, given) ==
  [f |-> "fillContentTemplate", contentTemplate |-> template,
   linkResults |-> given]

\* no chain runs
NoChain ==
  /\ chain = <<>>
  /\ config = Undefined
  /\ pc = "direct call"
  /\ i = 0
  /\ linkResults = EmptyObject
  /\ linkMessages = EmptyObject
  /\ chatCompletionResponses = EmptyObject
  /\ retries = 0
  /\ messages = Undefined
  /\ functionArgument = Undefined
  /\ returned = Undefined
  /\ thrown = Undefined
  /\ thrownBy = "nobody"
  /\ attemptLog = <<>>
  /\ produced = <<>>
  /\ executeLink_result = Unassigned
  /\ renderLog = <<>>

chainVars ==
  <<chain, config, pc, i, linkResults, linkMessages, chatCompletionResponses,
    retries, messages, functionArgument, returned, thrown, thrownBy,
    attemptLog, produced, executeLink_result, renderLog>>

InitFill ==
  /\ NoChain
  /\ input \in {FillCall(t, r) : t \in TemplatesOf(MaxPieces), r \in GivenLinkResults}
  /\ output = NoCall

\* lines 52-75: the call is made and comes to its outcome
CallFillContentTemplate ==
  /\ input.f = "fillContentTemplate"
  /\ output = NoCall
  /\ output' = fillContentTemplate(input.contentTemplate, input.linkResults)
  /\ UNCHANGED <<chainVars, input>>

FillSpec == InitFill /\ [][CallFillContentTemplate]_vars

(***************************************************************************)
(* Direct calls of buildContent (lines 77-105)                             *)
(***************************************************************************)
\* a block list has at most MaxBlocks blocks
MaxBlocks == 3

\* the templates of the blocks: a token followed by a space, text that starts
\* with a tab, and a token of two segments
BlockTemplates ==
  {<<"{", "{", "a", "}", "}", " ">>,
   <<"\t", "b">>,
   <<"{", "{", "a", ".", "b", "}", "}">>}

\* include?: boolean, line 16
Includes == {"true", "false", "absent"}

\* autoNewLineContent?: boolean and removeDoubleSpaces?: boolean
Flags == {"true", "false", "absent"}

BlockLists ==
  UNION {[1..n -> {Block(t, include) : t \in BlockTemplates, include \in Includes}] :
           n \in 0..MaxBlocks}

\* content: TemplateContent, line 19
Contents == {Text(t) : t \in BlockTemplates} \cup {Blocks(b) : b \in BlockLists}

\* the linkResults of a call: none, a string with two spaces in a row, and a
\* null
BuildLinkResults ==
  {Undefined,
   Obj(k_a :> Str(<<"v", " ", " ", "w">>)),
   Obj(k_a :> Null)}

\* the argument of a call buildContent({content, linkResults,
\* autoNewLineContent, removeDoubleSpaces})
BuildCall(content, given, autoNewLine, removeDouble) ==
  [f |-> "buildContent", content |-> content, linkResults |-> given,
   autoNewLineContent |-> autoNewLine, removeDoubleSpaces |-> removeDouble]

InitBuild ==
  /\ NoChain
  /\ input \in {BuildCall(c, r, a, d) :
                  c \in Contents, r \in BuildLinkResults, a \in Flags, d \in Flags}
  /\ output = NoCall

\* lines 77-105: the call is made and comes to its outcome
CallBuildContent ==
  /\ input.f = "buildContent"
  /\ output = NoCall
  /\ output' = buildContent(input.content, input.linkResults,
                            input.autoNewLineContent, input.removeDoubleSpaces)
  /\ UNCHANGED <<chainVars, input>>

BuildSpec == InitBuild /\ [][CallBuildContent]_vars
(***************************************************************************)
(* Properties                                                              *)
(***************************************************************************)
\* the names of the links at indices 0 .. n - 1
NamesBefore(n) == {At(chain, k).name : k \in 0..(n - 1)}

\* the link names of the chain are pairwise distinct
UniqueNames ==
  \A j, k \in 0..(Len(chain) - 1) : At(chain, j).name = At(chain, k).name => j = k

\* the result the completed link at index k produced
ProducedResult(k) == produced[k + 1].result

\* the completion of the successful attempt of the completed link at index k
ProducedResponse(k) == produced[k + 1].response

\* among the links at indices below n, the last one with the name of link k
LatestNamesake(k, n) ==
  CHOOSE j \in 0..(n - 1) :
    /\ At(chain, j).name = At(chain, k).name
    /\ \A m \in (j + 1)..(n - 1) : At(chain, m).name # At(chain, j).name

\* a link has been started and has not completed
LinkInFlight == pc \in {"function", "attempt", "remote"}

\* the sum of the prompt tokens the model links' completions reported
ReportedPromptTokens ==
  SumOver([k \in 1..Len(produced) |->
             IF chain[k].kind = "model" THEN PromptTokens(produced[k].response) ELSE 0],
          1..Len(produced))

\* the sum of the completion tokens the model links' completions reported
ReportedCompletionTokens ==
  SumOver([k \in 1..Len(produced) |->
             IF chain[k].kind = "model" THEN CompletionTokens(produced[k].response) ELSE 0],
          1..Len(produced))

\* C1: in the report of a chain that completed, totalPromptTokens is the sum
\* of the prompt tokens and totalCompletionTokens the sum of the completion
\* tokens that the successful completions of the model links reported
\* (function links contribute 0).
C1_TotalsAreSumOfUsage ==
  pc = "returned" =>
    /\ returned.totalPromptTokens = ReportedPromptTokens
    /\ returned.totalCompletionTokens = ReportedCompletionTokens

\* C2: in the report of a chain that completed, chatCompletionResponses maps
\* the name of each model link to the completion of its successful attempt
\* and has no entry for a function link.
C2_ResponsesOfModelLinks ==
  pc = "returned" =>
    \A k \in 0..(Len(chain) - 1) :
      IF At(chain, k).kind = "model"
      THEN /\ At(chain, k).name \in DOMAIN returned.chatCompletionResponses.f
           /\ returned.chatCompletionResponses.f[At(chain, k).name]
                = ProducedResponse(LatestNamesake(k, Len(chain)))
      ELSE \/ At(chain, k).name \notin DOMAIN returned.chatCompletionResponses.f
           \/ \E j \in 0..(Len(chain) - 1) :
                At(chain, j).kind = "model" /\ At(chain, j).name = At(chain, k).name

\* the budget the specification gives a model link: its own retries when it
\* sets one, otherwise the chain config's when given, otherwise 3
ClaimedBudget(link, cfg) ==
  IF link.retries.t # "undefined" THEN link.retries.n
  ELSE IF cfg.t # "undefined" THEN cfg.retries.n
  ELSE 3

\* C3: when getLinkResultOpenAi starts for a model link, its retry budget is
\* the link's own retries if the link sets one, otherwise config.retries if
\* given, otherwise 3.
C3_PerLinkRetriesWin ==
  (pc = "attempt" /\ attemptLog = <<>>) =>
    retries = ClaimedBudget(At(chain, i), config)

\* the number of loop iterations of the current invocation that came to outcome
Count(outcome) ==
  Cardinality({k \in 1..Len(attemptLog) : attemptLog[k] = outcome})

\* the remote calls the current getLinkResultOpenAi invocation has made
RemoteCalls ==
  Count("failed") + Count("succeeded") + (IF pc = "remote" THEN 1 ELSE 0)

\* getLinkResultOpenAi is running for link i or has thrown for it
InvokerRunning == pc \in {"attempt", "remote"}
InvokerThrew == pc = "thrown" /\ thrownBy = "getLinkResultOpenAi"

\* C4: for a model link with messages or templates and a budget r >= 1,
\* getLinkResultOpenAi makes at most r remote calls, makes a call only when
\* every earlier call failed, and throws exactly when all r calls failed.
C4_CallsWithinBudget ==
  ((InvokerRunning \/ InvokerThrew)
     /\ (At(chain, i).messages.t # "undefined" \/ At(chain, i).templates.t # "undefined")
     /\ InitialRetries(CurrentArgument) >= 1) =>
    /\ RemoteCalls <= InitialRetries(CurrentArgument)
    /\ InvokerRunning => Count("succeeded") = 0
    /\ InvokerThrew <=> Count("failed") = InitialRetries(CurrentArgument)

\* C5: a model link with neither messages nor templates fails on the first
\* attempt with "No messages or template provided": no second iteration of
\* the loop runs and no remote call is made.
C5_ConfigErrorNotRetried ==
  ((InvokerRunning \/ InvokerThrew)
     /\ At(chain, i).messages.t = "undefined"
     /\ At(chain, i).templates.t = "undefined") =>
    /\ Len(attemptLog) <= 1
    /\ RemoteCalls = 0
    /\ InvokerThrew => thrown = e_NoMessages

\* C6: links run in list order, one at a time: while link i is in flight
\* exactly the links 0 .. i-1 have completed, and Link Results holds, under
\* the names of the links 0 .. i-1 and under no other key, the results these
\* links produced (the latest one, for a name that occurs more than once).
C6_InOrderOneAtATime ==
  /\ i \in 0..Len(chain)
  /\ Len(produced) = i
  /\ LinkInFlight =>
       /\ i < Len(chain)
       /\ DOMAIN linkResults.f = NamesBefore(i)
       /\ \A k \in 0..(i - 1) :
            linkResults.f[At(chain, k).name] = ProducedResult(LatestNamesake(k, i))

C6_Witness ==
  /\ LinkInFlight
  /\ i = 1
  /\ UniqueNames
  /\ linkResults.f[At(chain, 0).name] = ProducedResult(0)

\* C7: once a link has failed, executeChain has thrown that failure: nothing
\* more runs (no later link starts) and no report is returned.
C7_FailureAbortsChain ==
  thrownBy # "nobody" =>
    /\ pc = "thrown"
    /\ returned = Undefined
    /\ Len(produced) = i
    /\ ~ENABLED Next

C7_Witness ==
  /\ pc = "thrown"
  /\ thrownBy = "getLinkResultOpenAi"
  /\ i = 0
  /\ Len(chain) = 2
  /\ Count("failed") = 2

\* a step keeps every key of Link Results, with its value
KeysKept ==
  \A k \in DOMAIN linkResults.f :
    k \in DOMAIN linkResults'.f /\ linkResults'.f[k] = linkResults.f[k]

\* C8 as stated: in every chain that runs, a key of Link Results, once
\* written, is never changed or removed.
C8_OnlyGrows == [][KeysKept]_vars

\* C8, amended: in every chain whose link names are pairwise distinct, a key
\* of Link Results, once written, is never changed or removed.
C8_OnlyGrowsWithUniqueNames == [][UniqueNames => KeysKept]_vars

C8_Witness ==
  /\ UniqueNames
  /\ Len(chain) = 2
  /\ i = 2
  /\ Cardinality(DOMAIN linkResults.f) = 2

\* C9: the report of a non-empty chain that completed has finalResult equal
\* to linkResults[name of the last link], the value the last link produced.
C9_FinalResultIsLastResult ==
  pc = "returned" =>
    /\ returned.finalResult = returned.linkResults.f[At(chain, Len(chain) - 1).name]
    /\ returned.finalResult = ProducedResult(Len(chain) - 1)

C9_Witness ==
  /\ pc = "returned"
  /\ Len(chain) = 2
  /\ ProducedResult(0) # ProducedResult(1)
  /\ returned.finalResult = ProducedResult(1)

\* C10: a function link at index i is called with a copy of the previous
\* link's result when i > 0 and that result is a structured object, and with
\* a copy of the whole Link Results mapping in every other case.
C10_FunctionArgument ==
  pc = "function" =>
    functionArgument =
      IF i > 0 /\ ProducedResult(i - 1).t = "object"
      THEN Obj(ProducedResult(i - 1).f)
      ELSE Obj(linkResults.f)

C10_Witness ==
  /\ pc = "function"
  /\ i > 0
  /\ ProducedResult(i - 1).t = "object"
  /\ functionArgument = Obj(ProducedResult(i - 1).f)
  /\ functionArgument # Obj(linkResults.f)


\* an empty result: undefined, null, the empty string or 0
EmptyResult(v) ==
  v \in {Undefined, Null, Str(<<>>), Num(0)}

\* C11: when the result a link came to is empty (a function link returned an
\* empty value, or a completion was received whose text or parsed arguments
\* are empty), executeLink has thrown "Execution failed for link <name>" for
\* that link, nothing was written for it, a model link made no remote call
\* after the one that succeeded, and nothing more runs.
C11_EmptyResultFails ==
  EmptyResult(executeLink_result) =>
    /\ pc = "thrown"
    /\ thrownBy = "executeLink"
    /\ thrown = Error([text |-> "Execution failed for link ", name |-> At(chain, i).name])
    /\ Len(produced) = i
    /\ DOMAIN linkResults.f = NamesBefore(i)
    /\ \A k \in 0..(i - 1) :
         linkResults.f[At(chain, k).name] = ProducedResult(LatestNamesake(k, i))
    /\ At(chain, i).kind = "model" =>
         /\ Count("succeeded") = 1
         /\ attemptLog[Len(attemptLog)] = "succeeded"
    /\ ~ENABLED Next

C11_Witness ==
  /\ EmptyResult(executeLink_result)
  /\ At(chain, i).kind = "model"
  /\ Count("failed") = 1
  /\ i = 1

\* the direct call of fillContentTemplate has come to its outcome
FillDone == input.f = "fillContentTemplate" /\ output # NoCall

\* the whole string t is one reference token
IsToken(t) == Len(t) > 0 /\ MatchEnd(t, 1) = Len(t)

\* the path of the reference token t, segment by segment
TokenPath(t) == Split(SubSeq(t, 3, Len(t) - 2), ".")

\* where a path cannot be followed to its end
Missing == [t |-> "missing"]

RECURSIVE Lookup(_, _)
\* repeated property lookup from value along parts; null and undefined have
\* no property
Lookup(value, parts) ==
  IF parts = <<>> THEN value
  ELSE IF value.t \in {"object", "string", "number"} /\ HasOwnProperty(value, Head(parts))
       THEN Lookup(GetProperty(value, Head(parts)), Tail(parts))
       ELSE Missing

\* C12: fillContentTemplate never raises; it replaces a token whose path can
\* be followed to the end with the value that repeated property lookup finds,
\* and returns a token whose path cannot be followed as it was written.
C12_FillNeverFails ==
  FillDone =>
    /\ output.ok
    /\ IsToken(input.contentTemplate) =>
         output.v =
           IF Lookup(input.linkResults, TokenPath(input.contentTemplate)) = Missing
           THEN input.contentTemplate
           ELSE JsString(Lookup(input.linkResults, TokenPath(input.contentTemplate)))

\* the first segments of the tokens of the template t
TokenKeys(t) ==
  {Head(Split(SubSeq(t, p + 2, MatchEnd(t, p) - 2), ".")) :
     p \in {q \in 1..Len(t) : MatchEnd(t, q) # 0}}

\* no Link Results are supplied, or no token of t names a key they have
NoKeyNamed(t, given) ==
  \/ given = Undefined
  \/ given.t = "object" /\ TokenKeys(t) \cap DOMAIN given.f = {}

\* C13: when no Link Results are supplied or no token of the template names a
\* key of Link Results, fillContentTemplate returns the template as it is, and
\* applied to what it returned, it returns the same string again.
C13_NoKeyIsNoOp ==
  (FillDone /\ NoKeyNamed(input.contentTemplate, input.linkResults)) =>
    /\ output = Ok(input.contentTemplate)
    /\ fillContentTemplate(output.v, input.linkResults) = output

C13_Witness ==
  /\ FillDone
  /\ NoKeyNamed(input.contentTemplate, input.linkResults)
  /\ TokenKeys(input.contentTemplate) # {}
  /\ input.linkResults \notin {Undefined, EmptyObject}

\* the direct call of buildContent has come to its outcome
BuildDone == input.f = "buildContent" /\ output # NoCall

\* the call is made in newline mode (autoNewLineContent true or left out)
NewlineMode == input.autoNewLineContent # "false"

\* the call collapses (removeDoubleSpaces true or left out)
CollapseOn == input.removeDoubleSpaces # "false"

\* no two whitespace characters of s are next to each other
NoAdjacentSpaces(s) ==
  \A p \in 1..(Len(s) - 1) : ~(s[p] \in SpaceChar /\ s[p + 1] \in SpaceChar)

\* position p of s is in a run of two or more whitespace characters
InLongRun(s, p) ==
  /\ s[p] \in SpaceChar
  /\ \/ p > 1 /\ s[p - 1] \in SpaceChar
     \/ p < Len(s) /\ s[p + 1] \in SpaceChar

\* the positions of s that are no whitespace or start a run of whitespace
RunStarts(s) ==
  {p \in 1..Len(s) : s[p] \notin SpaceChar \/ p = 1 \/ s[p - 1] \notin SpaceChar}

\* the k-th position of the set of positions ps
Kth(ps, k) == CHOOSE p \in ps : Cardinality({q \in ps : q < p}) = k - 1

\* s with every run of two or more whitespace characters replaced by one space
LongRunsCollapsed(s) ==
  [k \in 1..Cardinality(RunStarts(s)) |->
     IF InLongRun(s, Kth(RunStarts(s), k)) THEN " " ELSE s[Kth(RunStarts(s), k)]]

\* s with every run of whitespace characters replaced by one space
AllRunsCollapsed(s) ==
  [k \in 1..Cardinality(RunStarts(s)) |->
     IF s[Kth(RunStarts(s), k)] \in SpaceChar THEN " " ELSE s[Kth(RunStarts(s), k)]]

\* the block list is [{t1, true}, {t2, false}, {t3, true}]
IsT1T2T3 ==
  /\ input.content.t = "blocks"
  /\ Len(input.content.blocks) = 3
  /\ input.content.blocks[1].include = "true"
  /\ input.content.blocks[2].include = "false"
  /\ input.content.blocks[3].include = "true"

\* fill(t) for the template of the k-th block of the call
Fill(k) == fillContentTemplate(input.content.blocks[k].template, input.linkResults)

\* C14 as stated: for a block list [{t1,true},{t2,false},{t3,true}], in
\* newline mode with removeDoubleSpaces left at its default, buildContent
\* returns fill(t1), a newline, fill(t3).
C14_T1NewlineT3 ==
  (BuildDone /\ IsT1T2T3 /\ NewlineMode /\ input.removeDoubleSpaces = "absent") =>
    /\ Fill(1).ok /\ Fill(3).ok
    /\ output = Ok(Fill(1).v \o <<"\n">> \o Fill(3).v)

\* C14, amended: for a block list [{t1,true},{t2,false},{t3,true}] in newline
\* mode, buildContent throws what fill(t1) or else fill(t3) throws; otherwise
\* with removeDoubleSpaces false it returns fill(t1), a newline, fill(t3), and
\* with removeDoubleSpaces true or left out it returns that text with every
\* run of two or more whitespace characters replaced by one space (the same
\* text when no two whitespace characters of it are adjacent).  The excluded
\* block is not filled and contributes nothing.
C14_T1NewlineT3Collapsed ==
  (BuildDone /\ IsT1T2T3 /\ NewlineMode) =>
    IF ~Fill(1).ok THEN output = Fill(1)
    ELSE IF ~Fill(3).ok THEN output = Fill(3)
    ELSE /\ ~CollapseOn => output = Ok(Fill(1).v \o <<"\n">> \o Fill(3).v)
         /\ CollapseOn =>
              output = Ok(LongRunsCollapsed(Fill(1).v \o <<"\n">> \o Fill(3).v))
         /\ NoAdjacentSpaces(Fill(1).v \o <<"\n">> \o Fill(3).v) =>
              output = Ok(Fill(1).v \o <<"\n">> \o Fill(3).v)

\* fill(t1) ends with a space, so the newline after it is collapsed; the
\* excluded block would have thrown
C14_Witness ==
  /\ BuildDone /\ IsT1T2T3 /\ NewlineMode
  /\ input.removeDoubleSpaces = "absent"
  /\ output = Ok(<<"n", "u", "l", "l", " ", "b">>)
  /\ ~Fill(2).ok

\* what buildContent comes to when exactly the blocks in kept contribute, in
\* their order in the list
BuiltFrom(kept) ==
  JoinFilled(FillBlocks(kept, input.linkResults),
             input.autoNewLineContent, input.removeDoubleSpaces)

\* C15 as stated: only the blocks whose include is true contribute; a block
\* with include false or with no include field contributes nothing.
C15_OnlyIncludeTrue ==
  (BuildDone /\ input.content.t = "blocks") =>
    output = BuiltFrom(SelectSeq(input.content.blocks,
                                 LAMBDA block : block.include = "true"))

\* C15, amended: the blocks that contribute are those whose include is true
\* and those with no include field, in their original order; a block with
\* include false contributes nothing.
C15_AllButIncludeFalse ==
  (BuildDone /\ input.content.t = "blocks") =>
    output = BuiltFrom(SelectSeq(input.content.blocks,
                                 LAMBDA block : block.include \in {"true", "absent"}))

\* a block with no include field contributes between a block that is left out
\* and a block with include true
C15_Witness ==
  /\ BuildDone
  /\ input.content.t = "blocks"
  /\ Len(input.content.blocks) = 3
  /\ input.content.blocks[1].include = "false"
  /\ input.content.blocks[2].include = "absent"
  /\ input.content.blocks[3].include = "true"
  /\ input.linkResults = Undefined
  /\ input.removeDoubleSpaces = "false"
  /\ output = Ok(input.content.blocks[2].template \o <<"\n">>
                 \o input.content.blocks[3].template)

\* what buildContent comes to when collapse is what it does to the joined text
\* with removeDoubleSpaces true or left out
BuiltWith(collapse(_)) ==
  IF input.content.t = "string"
  THEN fillContentTemplate(input.content.s, input.linkResults)
  ELSE IF ~FillBlocks(IncludedBlocks(input.content.blocks), input.linkResults).ok
  THEN FillBlocks(IncludedBlocks(input.content.blocks), input.linkResults)
  ELSE IF CollapseOn
  THEN Ok(collapse(Join(FillBlocks(IncludedBlocks(input.content.blocks),
                                   input.linkResults).v,
                        IF NewlineMode THEN <<"\n">> ELSE <<" ">>)))
  ELSE Ok(Join(FillBlocks(IncludedBlocks(input.content.blocks), input.linkResults).v,
               IF NewlineMode THEN <<"\n">> ELSE <<" ">>))

\* C18 as stated: with removeDoubleSpaces true or left out, buildContent
\* replaces every run of whitespace of the joined text, the newline
\* separators included, by one space; with removeDoubleSpaces false it returns
\* the joined text; a plain string is filled and not collapsed.
C18_EveryRunCollapsed ==
  BuildDone => output = BuiltWith(AllRunsCollapsed)

\* C18, amended: with removeDoubleSpaces true or left out, buildContent
\* replaces every run of two or more whitespace characters of the joined text
\* by one space and keeps a whitespace character that stands alone (a newline
\* separator between two blocks with no whitespace next to it stays a
\* newline), so that no two whitespace characters of the output are adjacent;
\* with removeDoubleSpaces false it returns the joined text; a plain string is
\* filled and not collapsed.
C18_LongRunsCollapsed ==
  BuildDone =>
    /\ output = BuiltWith(LongRunsCollapsed)
    /\ (output.ok /\ input.content.t = "blocks" /\ CollapseOn) =>
         NoAdjacentSpaces(output.v)

\* a newline separator is kept and a run of two spaces is collapsed
C18_Witness ==
  /\ BuildDone
  /\ input.content.t = "blocks"
  /\ input.removeDoubleSpaces = "absent"
  /\ output = Ok(<<"{", "{", "a", ".", "b", "}", "}", "\n", "v", " ", "w", " ">>)

\* a model link configured with retries = 3 and a template set
HasThreeTries(link) ==
  /\ link.kind = "model"
  /\ link.retries = Num(3)
  /\ link.templates.t # "undefined"

\* every attempt of the current invocation so far ended in a failed remote call
AllFailed == \A k \in 1..Len(attemptLog) : attemptLog[k] = "failed"

\* C16: for a model link with retries = 3 and a template set, whatever the
\* chain-level config: after a first or a second failed remote attempt the
\* invocation goes on to another attempt; and when the first two attempts
\* failed and the third succeeded, the templates were rendered three times,
\* every render came to the same messages, the messages recorded for the link
\* are those of the third render, and the link's result is the one extracted
\* from the third attempt's completion.
C16_ThirdAttemptWins ==
  /\ ((InvokerRunning \/ InvokerThrew) /\ HasThreeTries(At(chain, i))
        /\ Len(attemptLog) < 3 /\ AllFailed) =>
       ~InvokerThrew
  /\ (pc = "executeChain" /\ i >= 1 /\ HasThreeTries(At(chain, i - 1))
        /\ attemptLog = <<"failed", "failed", "succeeded">>) =>
       /\ Len(renderLog) = 3
       /\ \A k \in 1..3 : renderLog[k].ok /\ renderLog[k] = renderLog[1]
       /\ linkMessages.f[At(chain, i - 1).name] = Array(renderLog[3].v)
       /\ ProducedResult(i - 1) = ExtractResult(ProducedResponse(i - 1)).v

\* the failure has structured error detail: response.data.error
HasErrorDetail(error) ==
  error.response.t # "undefined" /\ error.response.data_error.t # "undefined"

\* the message the claim has the invocation surface for a failure
SurfacedMessage(error) ==
  IF HasErrorDetail(error) THEN error.response.data_error.message
  ELSE error.message

\* the step is the last failure of an invocation entered with a budget r >= 1
\* whose attempts all failed in the remote call, and what is thrown carries
\* the message of that failure
LastFailureSurfaced(error) ==
  (RemoteFails(error) /\ pc' = "thrown" /\ AllFailed
     /\ InitialRetries(CurrentArgument) >= 1) =>
    thrown' = Error(SurfacedMessage(error))

\* C17: when getLinkResultOpenAi, entered with a budget r >= 1, throws after
\* every attempt failed in the remote call, the error thrown carries the
\* provider's message of the last failure when that failure has structured
\* error detail, and the raw message of the last failure otherwise.
C17_LastFailureSurfaced ==
  [][\A error \in RemoteErrors : LastFailureSurfaced(error)]_vars

C19_Terminates == <>(pc \in {"returned", "thrown"})

\* the chain returned after a link used two attempts of its budget on failures
C19_Witness ==
  /\ pc = "returned"
  /\ Len(chain) = MaxChainLen
  /\ Count("failed") = 2
  /\ Count("succeeded") = 1

\* the SyntaxError of JSON.parse on a payload that does not parse
e_SyntaxError == Error([text |-> "Unexpected end of JSON input"])

\* a step outside the retry loop is never taken again: a function link is
\* called at an index that has not run before; the step that ends its call
\* either completes the link with a result that is not empty or ends the
\* chain with a throw; a throw of executeLink after a remote call (a payload
\* that does not parse, or an empty result) follows the only completion that
\* invocation received and ends the chain; nothing runs after a throw
OutsideLoopOnce ==
  /\ pc # "thrown"
  /\ pc' = "function" =>
       /\ pc = "executeChain"
       /\ i' = i
       /\ Len(produced) = i
  /\ pc = "function" =>
       \/ /\ pc' = "executeChain"
          /\ i' = i + 1
          /\ ~EmptyResult(executeLink_result')
       \/ /\ pc' = "thrown"
          /\ i' = i
          /\ thrownBy' \in {"link", "executeLink"}
  /\ (pc = "remote" /\ thrownBy' = "executeLink") =>
       /\ pc' = "thrown"
       /\ i' = i
       /\ Count("succeeded") = 0
       /\ attemptLog' = Append(attemptLog, "succeeded")
       /\ retries' = retries

\* C21: whatever the chain-level retries, a function link is called once and
\* never again: when it throws or returns an empty result the chain ends at
\* once; and when the payload of a model link's function call does not parse,
\* the chain ends with no further remote attempt, whatever budget is left.
C21_NoRetryOutsideLoop == [][OutsideLoopOnce]_vars

\* a payload did not parse while a budget of 2 was left
C21_Witness ==
  /\ pc = "thrown"
  /\ thrown = e_SyntaxError
  /\ thrownBy = "executeLink"
  /\ retries = 2
  /\ config # Undefined
  /\ i = 1
  /\ At(chain, 0).kind = "function"

\* the outcome first followed by the outcome second: the error of the first
\* that failed, or the two texts one after the other
OneAfterTheOther(first, second) ==
  IF ~first.ok THEN first
  ELSE IF ~second.ok THEN second
  ELSE Ok(first.v \o second.v)

\* the template t cut after its first k characters, each part filled alone
FilledApart(t, k, given) ==
  OneAfterTheOther(fillContentTemplate(SubSeq(t, 1, k), given),
                   fillContentTemplate(SubSeq(t, k + 1, Len(t)), given))

\* a token stands right before or right after the cut at k
CutAtToken(t, k) ==
  \/ IsToken(SubSeq(t, 1, k))
  \/ IsToken(SubSeq(t, k + 1, Len(t)))

\* C22: substitution is one pass: a token that resolves to a string is
\* replaced with that string as it is, token text in it included, and the
\* outcome for a template is the outcome for the part up to a token followed
\* by the outcome for the part after it, each part filled alone.
C22_SinglePass ==
  (FillDone /\ ~Falsy(input.linkResults)) =>
    /\ (/\ IsToken(input.contentTemplate)
        /\ Lookup(input.linkResults, TokenPath(input.contentTemplate)) # Missing
        /\ Lookup(input.linkResults, TokenPath(input.contentTemplate)).t = "string") =>
         output = Ok(Lookup(input.linkResults, TokenPath(input.contentTemplate)).s)
    /\ \A k \in 1..(Len(input.contentTemplate) - 1) :
         CutAtToken(input.contentTemplate, k) =>
           output = FilledApart(input.contentTemplate, k, input.linkResults)

\* {{a}}{{z}} where a is the text {{z}} and z is a key: the text of a stays
C22_Witness ==
  /\ FillDone
  /\ input.contentTemplate =
       <<"{", "{", "a", "}", "}", "{", "{", "z", "}", "}">>
  /\ input.linkResults.t = "object"
  /\ k_z \in DOMAIN input.linkResults.f
  /\ output = Ok(<<"{", "{", "z", "}", "}">> \o s_i)

\* no link has been called and nothing has been recorded
NothingExecuted ==
  /\ i = 0
  /\ produced = <<>>
  /\ attemptLog = <<>>
  /\ renderLog = <<>>
  /\ linkResults = EmptyObject
  /\ linkMessages = EmptyObject
  /\ chatCompletionResponses = EmptyObject

\* C23: executeChain with an empty list executes nothing, and it does not
\* return a report: the only step it can take is the one that computes the
\* final result, and that step raises the runtime's TypeError.
C23_EmptyChainFails ==
  (input = NoCall /\ chain = <<>>) =>
    /\ NothingExecuted
    /\ returned = Undefined
    /\ pc \in {"executeChain", "thrown"}
    /\ pc = "executeChain" =>
         /\ ENABLED Finish
         /\ ~ENABLED CallFunctionLink
         /\ ~ENABLED CallModelLink
    /\ pc = "thrown" =>
         /\ thrown = e_EmptyChain
         /\ thrownBy = "executeChain"

\* the empty chain has failed
C23_Witness ==
  /\ input = NoCall
  /\ chain = <<>>
  /\ pc = "thrown"
  /\ thrownBy = "executeChain"
  /\ config # Undefined

\* a model link that supplies both a template set and static messages
BothGiven(link) ==
  /\ link.kind = "model"
  /\ link.templates.t # "undefined"
  /\ link.messages.t # "undefined"

\* the messages rendering is the template set of link rendered
RenderedNotStatic(sent, link, rendering) ==
  /\ rendering.ok
  /\ sent = Array(rendering.v)
  /\ sent # link.messages

\* a step of a link that supplies both: the messages an attempt sends, and
\* the messages recorded when the link completes, are the template set
\* rendered against the Link Results of that moment
SendsRendering(link, rendering) ==
  /\ (pc = "attempt" /\ pc' = "remote") =>
       RenderedNotStatic(messages', link, rendering)
  /\ (pc = "remote" /\ pc' = "executeChain") =>
       /\ RenderedNotStatic(messages, link, rendering)
       /\ linkMessages'.f[link.name] = messages

\* the report carries the messages recorded, and for no link that supplies
\* both are they the static messages
ReportsRendering ==
  pc' = "returned" =>
    /\ returned'.linkMessages = linkMessages
    /\ \A k \in 1..Len(chain) :
         BothGiven(chain[k]) =>
           returned'.linkMessages.f[chain[k].name] # chain[k].messages

\* every step keeps to the rendering, for the link that runs and in the report
TemplatesWin ==
  /\ (pc \in {"attempt", "remote"} /\ BothGiven(At(chain, i))) =>
       \A rendering \in {RenderTemplates(At(chain, i).templates.a, CurrentArgument)} :
         SendsRendering(At(chain, i), rendering)
  /\ ReportsRendering

\* C24: when a model link supplies both a template set and static messages,
\* the static messages are never sent: on every attempt the messages sent are
\* the template set rendered against the current Link Results, and so are the
\* messages recorded for the link in linkMessages and in the report.
C24_TemplatesReplaceMessages == [][TemplatesWin]_vars

\* a link that supplies both completed at its second attempt or later, and
\* the chain returned
C24_Witness ==
  /\ pc = "returned"
  /\ Len(chain) = 2
  /\ chain[1].kind = "function"
  /\ BothGiven(chain[2])
  /\ Len(attemptLog) >= 2
  /\ returned.linkMessages.f[chain[2].name] =
       Array(renderLog[Len(renderLog)].v)
====
